---- MODULE Spec2Model ----
(***************************************************************************)
(* Model of the plan execution state machine of workstream                 *)
(* (src/internal/execute/sm/final.go: the States machine of package sm and *)
(* the finalStates machine, both stored in that file).                     *)
(*                                                                         *)
(* One driver goroutine runs the states one after another                  *)
(* (statemachine.Run: a state runs to completion, the machine stops when   *)
(* the state returns with Next == nil or Err != nil).  Beside it run the   *)
(* continuous-check supervisors (runContChecks), the goroutines of the     *)
(* check runner (runChecks) and the workers of the sequence pool.          *)
(***************************************************************************)
EXTENDS Integers, Sequences, FiniteSets, TLC

\* ---------------------------------------------------------------- bounds
MaxBlocks == 2      \* blocks of a plan
MaxSeqs == 3        \* sequences of a block
MaxActs == 2        \* actions of a sequence
MaxRetries == 2     \* Action.Retries
MaxConc == 2        \* Block.Concurrency
MaxTol == 1         \* Block.ToleratedFailures
CheckActs == 2      \* actions of a Checks node

\* The capacity of a cont-check result channel: make(chan error, 1) in Start.
ChanCap == 1

VARIABLES
    plan,        \* the static part of the plan tree (shape, Retries, Concurrency ...)
    planStatus,  \* Plan.Internals.Internal.Status
    planReason,  \* Plan.Internals.Reason
    chkState,    \* Status of the plan's PreChecks/ContChecks/PostChecks node ("nil": no node)
    blockStatus, \* Block.Internal.Status, by position in Plan.Blocks
    seq,         \* per sequence: Internal.Status and the position of execSeq
    act,         \* per action: Internal.Status, Attempts and the position of runAction
    crun,        \* per Checks node: position of the runChecks call on it
    pc,          \* the driver: the state in req.Next, or a position inside a state
    blocks,      \* Data.blocks: the block handles not yet popped (contCancel per handle)
    dataCancel,  \* Data.contCancel is non-nil
    ch,          \* the cont-check result channels: 0 is Data.contCheckResult, b the handle's
    sup,         \* the supervisor goroutines (runContChecks): 0 plan-level, b of block b
    es,          \* locals of ExecuteSequences: i, failures, the state to return
    ctxDone,     \* req.Ctx has been cancelled
    fpc,         \* the finalizer machine: the state in req.Next
    fErr,        \* the finalizer machine: req.Err
    stream,      \* Workstream.Status: its goroutine, the channels it made, what was read
    stored       \* the store: the Status of the plan, blocks and sequences last written

vars == <<plan, planStatus, planReason, chkState, blockStatus, seq, act, crun, pc,
          blocks, dataCancel, ch, sup, es, ctxDone, fpc, fErr, stream, stored>>

\* ---------------------------------------------------------------- constants of package workflow
NotStarted == "NotStarted"
Started == "Started"
Running == "Running"
Completed == "Completed"
Failed == "Failed"
Stopped == "Stopped"
Status == {NotStarted, Started, Running, Completed, Failed, Stopped}

FRUnknown == "Unknown"
FRPreCheck == "PreCheck"
FRBlock == "Block"
FRPostCheck == "PostCheck"
FRContCheck == "ContCheck"
FRStopped == "Stopped"
FailureReason == {FRUnknown, FRPreCheck, FRBlock, FRPostCheck, FRContCheck, FRStopped}

OTPlan == "OTPlan"
OTBlock == "OTBlock"
OTUnknown == "OTUnknown"

\* ---------------------------------------------------------------- the plan tree
CheckKinds == {"Pre", "Cont", "Post"}

\* The plans are those Validate accepts and defaults() completes: at least one
\* block, Concurrency >= 1, at least one sequence per block and one action per
\* sequence, Retries >= 0.  In the plans below every block of a plan has the
\* same shape and every action the same Retries.  pre/cont/post tell whether
\* the PreChecks/ContChecks/PostChecks node is present.

\* Plans that vary the checks of the plan and of its blocks; a block is one
\* sequence of one action.
CheckPlans ==
    [pre : BOOLEAN, cont : BOOLEAN, post : BOOLEAN,
     nblocks : {MaxBlocks}, retries : {0}, nchk : {1},
     shape : [pre : BOOLEAN, cont : BOOLEAN, post : BOOLEAN,
              conc : {1}, tol : {0}, nseq : {1}, nact : {1}]]

\* Plans without checks that vary the sequences of a block, its Concurrency
\* and its ToleratedFailures.
SeqPlans ==
    [pre : {FALSE}, cont : {FALSE}, post : {FALSE},
     nblocks : 1..MaxBlocks, retries : {0}, nchk : {1},
     shape : [pre : {FALSE}, cont : {FALSE}, post : {FALSE},
              conc : 1..MaxConc, tol : (-1)..MaxTol, nseq : 1..MaxSeqs,
              nact : {1}]]

\* Plans without checks whose sequences have MaxActs actions.
ActPlans ==
    [pre : {FALSE}, cont : {FALSE}, post : {FALSE},
     nblocks : {1}, retries : {0}, nchk : {1},
     shape : [pre : {FALSE}, cont : {FALSE}, post : {FALSE},
              conc : 1..MaxConc, tol : {0}, nseq : {1, 2}, nact : {MaxActs}]]

\* Plans whose PreChecks, and ContChecks if present, have CheckActs actions.
ChkPlans ==
    [pre : {TRUE}, cont : BOOLEAN, post : {FALSE},
     nblocks : {1}, retries : {0}, nchk : {CheckActs},
     shape : [pre : {FALSE}, cont : {FALSE}, post : {FALSE},
              conc : {1}, tol : {0}, nseq : {1}, nact : {1}]]

\* Plans that vary Retries: plan-level ContChecks and one sequence per block.
RetryPlans ==
    [pre : {FALSE}, cont : {TRUE}, post : {FALSE},
     nblocks : {MaxBlocks}, retries : 0..MaxRetries, nchk : {1},
     shape : [pre : {FALSE}, cont : {FALSE}, post : {FALSE},
              conc : {1}, tol : {0}, nseq : {1}, nact : {1}]]

\* Plans whose blocks have ContChecks and two sequences: a supervisor runs
\* beside the submission loop.
ContPlans ==
    [pre : {FALSE}, cont : BOOLEAN, post : {FALSE},
     nblocks : {MaxBlocks}, retries : {0}, nchk : {1},
     shape : [pre : {FALSE}, cont : {TRUE}, post : {FALSE},
              conc : 1..MaxConc, tol : {0, MaxTol}, nseq : {2}, nact : {1}]]

\* Plans for the states entered with a head handle that holds its cancel
\* function: blocks with ContChecks and one sequence.
HandlePlans ==
    [pre : {FALSE}, cont : BOOLEAN, post : BOOLEAN,
     nblocks : 1..MaxBlocks, retries : {0}, nchk : {1},
     shape : [pre : {FALSE}, cont : {TRUE}, post : BOOLEAN,
              conc : {1}, tol : {0}, nseq : {1}, nact : {1}]]

BlockIds == 1..MaxBlocks
Scopes == 0..MaxBlocks          \* 0: the plan, b: block b
CheckIds == CheckKinds \X Scopes
SeqIds == BlockIds \X (1..MaxSeqs)
ActionIds ==
    (CheckKinds \X Scopes \X {0} \X (1..CheckActs))
        \cup ({"Seq"} \X BlockIds \X (1..MaxSeqs) \X (1..MaxActs))

HasChecks(p, c) ==
    LET k == c[1]
        s == c[2]
        n == IF s = 0 THEN p ELSE p.shape
    IN  /\ s <= p.nblocks
        /\ CASE k = "Pre" -> n.pre
             [] k = "Cont" -> n.cont
             [] OTHER -> n.post

CheckActions(c) == {<<c[1], c[2], 0, k>> : k \in 1..plan.nchk}
SeqAction(b, s, k) == <<"Seq", b, s, k>>


\* ---------------------------------------------------------------- initial state
NoAction == [status |-> NotStarted, attempts |-> <<>>, phase |-> "none"]
NoSeq == [status |-> NotStarted, phase |-> "none", cur |-> 0, tmp |-> 0]
NoChan == [buf |-> <<>>, closed |-> FALSE, sends |-> 0, closes |-> 0]
NoLoop == [i |-> 0, failures |-> 0, next |-> "nil"]
NoSup == [st |-> "none", cancelled |-> FALSE]
\* No call of Workstream.Status.
NoStream == [gpc |-> "none", buf |-> <<>>, closed |-> FALSE, sent |-> <<>>,
             inner |-> <<>>, end |-> "none", got |-> 0]

\* The store holding the tree as it is in memory: every entity was written
\* with the status it has.
Written == [plan |-> planStatus, block |-> blockStatus,
            seq |-> [x \in SeqIds |-> seq[x].status]]

\* The tree as Workstream.Submit stores it (defaults(): every Status NotStarted,
\* Reason FRUnknown, no Attempts) and the machine before its first state.
InitTree(p) ==
    /\ plan = p
    /\ planStatus = NotStarted
    /\ planReason = FRUnknown
    /\ chkState = [k \in CheckKinds |-> IF HasChecks(p, <<k, 0>>) THEN NotStarted ELSE "nil"]
    /\ blockStatus = [b \in BlockIds |-> NotStarted]
    /\ seq = [x \in SeqIds |-> NoSeq]
    /\ act = [a \in ActionIds |-> NoAction]
    /\ crun = [c \in CheckIds |-> "idle"]
    /\ blocks = <<>>
    /\ dataCancel = FALSE
    /\ ch = [x \in Scopes |-> NoChan]
    /\ sup = [x \in Scopes |-> NoSup]
    /\ es = NoLoop
    /\ ctxDone = FALSE

\* The machine before States.Start, on a plan of the set ps.
InitRun(ps) ==
    /\ \E p \in ps : InitTree(p)
    /\ pc = "Start"
    /\ fpc = "idle"
    /\ fErr = "nil"
    /\ stream = NoStream
    /\ stored = Written

Init == InitRun(CheckPlans)
InitSeq == InitRun(SeqPlans)
InitActs == InitRun(ActPlans)
InitChk == InitRun(ChkPlans)
InitRetry == InitRun(RetryPlans)
InitCont == InitRun(ContPlans)

\* The result channel of the head block as TestBlockEnd prepares it (closed,
\* holding an error or not), or still open with the supervisor running.
HandleChans ==
    {NoChan,
     [buf |-> <<>>, closed |-> TRUE, sends |-> 0, closes |-> 1],
     [buf |-> <<"err">>, closed |-> TRUE, sends |-> 1, closes |-> 1]}

DoneAction == [status |-> Completed, attempts |-> <<"nil">>, phase |-> "none"]

\* The machine at the entry of BlockPostChecks or BlockEnd of the first block,
\* with the Data TestBlockEnd hands to the state: blocks[0].contCancel is set
\* and the block is Running.  The sequence of the block has completed, the
\* checks that ran before have passed and the plan's supervisor, if any, runs.
InitHandle ==
    /\ plan \in HandlePlans
    /\ planStatus = Started
    /\ planReason = FRUnknown
    /\ chkState = [k \in CheckKinds |-> IF HasChecks(plan, <<k, 0>>) THEN NotStarted ELSE "nil"]
    /\ blockStatus = [b \in BlockIds |-> IF b = 1 THEN Running ELSE NotStarted]
    /\ seq = [x \in SeqIds |->
                IF x = <<1, 1>> THEN [status |-> Completed, phase |-> "done", cur |-> 1, tmp |-> 0]
                ELSE NoSeq]
    /\ act = [a \in ActionIds |->
                IF \/ a = SeqAction(1, 1, 1)
                   \/ a \in CheckActions(<<"Cont", 1>>)
                   \/ (plan.cont /\ a \in CheckActions(<<"Cont", 0>>))
                THEN DoneAction ELSE NoAction]
    /\ crun = [c \in CheckIds |-> "idle"]
    /\ blocks = [i \in 1..plan.nblocks |-> [b |-> i, contCancel |-> (i = 1)]]
    /\ dataCancel = plan.cont
    /\ \E c \in HandleChans :
          /\ ch = [x \in Scopes |-> IF x = 1 THEN c ELSE NoChan]
          /\ sup = [x \in Scopes |->
                      IF x = 1 THEN [st |-> IF c.closed THEN "done" ELSE "wait", cancelled |-> FALSE]
                      ELSE IF x = 0 /\ plan.cont THEN [st |-> "wait", cancelled |-> FALSE]
                      ELSE NoSup]
    /\ es = [i |-> 2, failures |-> 0, next |-> "BlockPostChecks"]
    /\ ctxDone = FALSE
    /\ pc \in {"BlockPostChecks", "BlockEnd"}
    /\ fpc = "idle"
    /\ fErr = "nil"
    /\ stream = NoStream
    /\ stored = Written

\* A panic of the driver goroutine ends the process, and every goroutine with it.
Alive == pc # "panic"

treeVars == <<plan, planStatus, planReason, chkState, blockStatus>>
finalVars == <<fpc, fErr, stream>>
storeVars == <<finalVars, stored>>

\* ---------------------------------------------------------------- runAction
\* What Plugin.Execute can give back: a response of the declared type, an error,
\* or a nil error with a response of another type.
PluginOutcomes == {"ok", "err", "badtype"}

isType(outcome) == outcome # "badtype"

\* The error stored in the Attempt: nil, the plugin's error, or the permanent
\* error of a response of the wrong type.
AttemptErr(outcome) ==
    IF outcome = "err" THEN "err"
    ELSE IF ~isType(outcome) THEN "perm"
    ELSE "nil"

\* The context handed to runAction is req.Ctx, except in a tick of a supervisor,
\* which runs its checks under context.WithoutCancel.
ActCtxDone(a) == ctxDone /\ ~(a[1] = "Cont" /\ sup[a[2]].st = "tick")

\* (mutant) the guard off by one: an attempt more is allowed.
RetriesExhaustedLate(a) == Len(act[a].attempts) > plan.retries + 1

\* The guard of the retried function: no further attempt once
\* len(action.Attempts) > action.Retries.
RetriesExhausted(a) == Len(act[a].attempts) > plan.retries

\* (mutant) no error stops the retries.
PermanentNever(e) == FALSE

\* backoff.Retry stops on an error that wraps exponential.ErrPermanent.
Permanent(e) == e = "perm"

\* runAction up to the call of backoff.Retry: Status Running.  It is part of
\* the step of the caller that starts the action (runChecks, execSeq).
runActionBegin(a) == [a EXCEPT !.status = Running, !.phase = "retry"]

\* One call of the retried function by backoff.Retry and, when Retry returns
\* after it (nil error, permanent error), the end of runAction.
runActionAttempt(a) ==
    /\ Alive
    /\ act[a].phase = "retry"
    /\ IF RetriesExhausted(a)
       THEN act' = [act EXCEPT ![a].status = Failed, ![a].phase = "err"]
       ELSE \E o \in PluginOutcomes :
              LET e == AttemptErr(o)
                  att == Append(act[a].attempts, e)
              IN  act' = [act EXCEPT
                            ![a].attempts = att,
                            ![a].status = IF e = "nil" THEN Completed
                                          ELSE IF Permanent(e) THEN Failed ELSE @,
                            ![a].phase = IF e = "nil" THEN "ok"
                                         ELSE IF Permanent(e) THEN "err" ELSE @]
    /\ UNCHANGED <<treeVars, seq, crun, pc, blocks, dataCancel, ch, sup, es, ctxDone, storeVars>>

\* backoff.Retry gives up because its context is done: runAction fails the
\* action without a further attempt.
runActionCancelled(a) ==
    /\ Alive
    /\ act[a].phase = "retry"
    /\ ActCtxDone(a)
    /\ act' = [act EXCEPT ![a].status = Failed, ![a].phase = "err"]
    /\ UNCHANGED <<treeVars, seq, crun, pc, blocks, dataCancel, ch, sup, es, ctxDone, storeVars>>

runAction(a) == runActionAttempt(a) \/ runActionCancelled(a)

\* ---------------------------------------------------------------- runChecks
\* The pre-pass of runChecks (every action Running) and the start of one
\* goroutine per action, which enters runAction.
runChecks(c) ==
    /\ Alive
    /\ crun[c] = "launched"
    /\ crun' = [crun EXCEPT ![c] = "running"]
    /\ act' = [a \in ActionIds |->
                 IF a \in CheckActions(c)
                 THEN runActionBegin([act[a] EXCEPT !.status = Running])
                 ELSE act[a]]
    /\ UNCHANGED <<treeVars, seq, pc, blocks, dataCancel, ch, sup, es, ctxDone, storeVars>>

\* (mutant) the wait ends with the first action that returns.
ChecksDoneFirst(c) ==
    crun[c] = "running" /\ \E a \in CheckActions(c) : act[a].phase \in {"ok", "err"}

\* g.Wait of runChecks: every action has returned; the error is non-nil iff one failed.
ChecksDone(c) ==
    crun[c] = "running" /\ \A a \in CheckActions(c) : act[a].phase \in {"ok", "err"}
ChecksErr(c) == \E a \in CheckActions(c) : act[a].phase = "err"

\* The state of the actions and of the call once the caller has the result.
Returned(a, cs) ==
    IF \E c \in cs : a \in CheckActions(c) THEN [act[a] EXCEPT !.phase = "none"] ELSE act[a]

\* (mutant) the reset reaches every action of the tree.
resetActionsAll(c) ==
    [a \in ActionIds |-> [act[a] EXCEPT !.status = NotStarted, !.attempts = <<>>]]

resetActions(c) ==
    [a \in ActionIds |->
        IF a \in CheckActions(c)
        THEN [act[a] EXCEPT !.status = NotStarted, !.attempts = <<>>]
        ELSE act[a]]


\* ---------------------------------------------------------------- runContChecks
ContOf(x) == <<"Cont", x>>

\* ctx.Done() of the supervisor.  The plan-level context is
\* context.WithCancel(req.Ctx), the block-level one
\* context.WithCancel(context.WithoutCancel(req.Ctx)).
SupCtxDone(x) == sup[x].cancelled \/ (x = 0 /\ ctxDone)

Close(c) == [c EXCEPT !.closed = TRUE, !.closes = @ + 1]
Send(c, v) == [c EXCEPT !.buf = Append(@, v), !.sends = @ + 1]

\* (mutant) no return after the send: the loop goes on.
AfterSendLoops == "wait"

\* "resultCh <- err; return": after the send the supervisor returns.
AfterSend == "sent"

\* select, case <-time.After(checks.Delay): resetActions and the call of runChecks.
runContChecksTick(x) ==
    /\ Alive
    /\ sup[x].st = "wait"
    /\ act' = resetActions(ContOf(x))
    /\ crun' = [crun EXCEPT ![ContOf(x)] = "launched"]
    /\ sup' = [sup EXCEPT ![x].st = "tick"]
    /\ UNCHANGED <<treeVars, seq, pc, blocks, dataCancel, ch, es, ctxDone, storeVars>>

\* runChecks has returned: on an error, resultCh <- err; else the next round.
runContChecksTickEnd(x) ==
    /\ Alive
    /\ sup[x].st = "tick"
    /\ ChecksDone(ContOf(x))
    /\ IF ChecksErr(ContOf(x))
       THEN /\ Len(ch[x].buf) < ChanCap
            /\ ~ch[x].closed
            /\ ch' = [ch EXCEPT ![x] = Send(@, "err")]
            /\ sup' = [sup EXCEPT ![x].st = AfterSend]
       ELSE /\ sup' = [sup EXCEPT ![x].st = "wait"]
            /\ ch' = ch
    /\ crun' = [crun EXCEPT ![ContOf(x)] = "idle"]
    /\ act' = [a \in ActionIds |-> Returned(a, {ContOf(x)})]
    /\ UNCHANGED <<treeVars, seq, pc, blocks, dataCancel, es, ctxDone, storeVars>>

\* return after the send: the deferred close(resultCh).
runContChecksReturn(x) ==
    /\ Alive
    /\ sup[x].st = "sent"
    /\ ch' = [ch EXCEPT ![x] = Close(@)]
    /\ sup' = [sup EXCEPT ![x].st = "done"]
    /\ UNCHANGED <<treeVars, seq, act, crun, pc, blocks, dataCancel, es, ctxDone, storeVars>>

\* select, case <-ctx.Done(): return, and the deferred close(resultCh).
runContChecksDone(x) ==
    /\ Alive
    /\ sup[x].st = "wait"
    /\ SupCtxDone(x)
    /\ ch' = [ch EXCEPT ![x] = Close(@)]
    /\ sup' = [sup EXCEPT ![x].st = "done"]
    /\ UNCHANGED <<treeVars, seq, act, crun, pc, blocks, dataCancel, es, ctxDone, storeVars>>

runContChecks(x) ==
    \/ runContChecksTick(x)
    \/ runContChecksTickEnd(x)
    \/ runContChecksReturn(x)
    \/ runContChecksDone(x)

\* ---------------------------------------------------------------- Data.contChecks
Ready(x) == ch[x].buf # <<>> \/ ch[x].closed

\* A receive from a ready channel: the buffered value, or nil from a closed channel.
RecvErr(x) == IF ch[x].buf # <<>> THEN Head(ch[x].buf) ELSE "nil"
RecvChan(x) == IF ch[x].buf # <<>> THEN [ch EXCEPT ![x].buf = Tail(@)] ELSE ch

\* The non-blocking select of Data.contChecks: every result it can give
\* (select takes any ready case; default when none is).
contChecks ==
    LET cases == {0} \cup (IF blocks # <<>> THEN {blocks[1].b} ELSE {})
        ready == {x \in cases : Ready(x)}
    IN  IF ready = {}
        THEN {[ot |-> OTUnknown, err |-> "nil", ch |-> ch]}
        ELSE {[ot |-> IF x = 0 THEN OTPlan ELSE OTBlock,
               err |-> RecvErr(x), ch |-> RecvChan(x)] : x \in ready}

\* ---------------------------------------------------------------- runPreChecks
PreCheckSets(s) == {c \in {<<"Pre", s>>, <<"Cont", s>>} : HasChecks(plan, c)}

\* g.Go for the PreChecks and for the first pass of the ContChecks.
runPreChecksGo(s) ==
    [c \in CheckIds |-> IF c \in PreCheckSets(s) THEN "launched" ELSE crun[c]]

\* g.Wait of runPreChecks.
runPreChecksDone(s) == \A c \in PreCheckSets(s) : ChecksDone(c)
runPreChecksErr(s) == \E c \in PreCheckSets(s) : ChecksErr(c)


\* ---------------------------------------------------------------- the states of the plan machine
Head1 == blocks[1]          \* h := req.Data.blocks[0], a copy of the handle
HeadB == blocks[1].b

Start ==
    /\ pc = "Start"
    /\ blocks' = [i \in 1..plan.nblocks |-> [b |-> i, contCancel |-> FALSE]]
    /\ planStatus' = Started
    /\ pc' = "PlanPreChecks"
    /\ stored' = [stored EXCEPT !.plan = Started]
    /\ UNCHANGED <<plan, planReason, chkState, blockStatus, seq, act, crun, dataCancel,
                   ch, sup, es, ctxDone, finalVars>>

\* PlanPreChecks up to g.Wait of runPreChecks.
PlanPreChecks ==
    /\ pc = "PlanPreChecks"
    /\ crun' = runPreChecksGo(0)
    /\ pc' = IF PreCheckSets(0) = {} THEN "PlanStartContChecks" ELSE "PlanPreChecks.wait"
    /\ UNCHANGED <<treeVars, seq, act, blocks, dataCancel, ch, sup, es, ctxDone, storeVars>>

\* runPreChecks has returned: on an error the state returns with no Next.
PlanPreChecksWait ==
    /\ pc = "PlanPreChecks.wait"
    /\ runPreChecksDone(0)
    /\ pc' = IF runPreChecksErr(0) THEN "nil" ELSE "PlanStartContChecks"
    /\ crun' = [c \in CheckIds |-> IF c \in PreCheckSets(0) THEN "idle" ELSE crun[c]]
    /\ act' = [a \in ActionIds |-> Returned(a, PreCheckSets(0))]
    /\ UNCHANGED <<treeVars, seq, blocks, dataCancel, ch, sup, es, ctxDone, storeVars>>

PlanStartContChecks ==
    /\ pc = "PlanStartContChecks"
    /\ IF plan.cont
       THEN /\ dataCancel' = TRUE
            /\ sup' = [sup EXCEPT ![0].st = "wait"]
       ELSE UNCHANGED <<dataCancel, sup>>
    /\ pc' = "ExecuteBlock"
    /\ UNCHANGED <<treeVars, seq, act, crun, blocks, ch, es, ctxDone, storeVars>>

ExecuteBlock ==
    /\ pc = "ExecuteBlock"
    /\ IF blocks = <<>>
       THEN /\ pc' = "PlanPostChecks"
            /\ UNCHANGED <<blockStatus, stored>>
       ELSE /\ blockStatus' = [blockStatus EXCEPT ![HeadB] = Running]
            /\ stored' = [stored EXCEPT !.block[HeadB] = Running]
            /\ pc' = "BlockPreChecks"
    /\ UNCHANGED <<plan, planStatus, planReason, chkState, seq, act, crun, blocks,
                   dataCancel, ch, sup, es, ctxDone, finalVars>>

\* (mutant) the failure paths of the block states go on to BlockEnd.
BlockFailedNextEnd == "BlockEnd"

\* "h.block.Internal.Status = workflow.Failed; return req": req.Next is unset
\* on the failure paths of the block states, the machine stops.
BlockFailedNext == "nil"

\* The checks run only under "if h.block.ContChecks != nil".
BlockPreChecksRuns == plan.shape.cont

BlockPreChecks ==
    /\ pc = "BlockPreChecks"
    /\ IF BlockPreChecksRuns
       THEN /\ crun' = runPreChecksGo(HeadB)
            /\ pc' = "BlockPreChecks.wait"
       ELSE /\ crun' = crun
            /\ pc' = "BlockStartContChecks"
    /\ UNCHANGED <<treeVars, seq, act, blocks, dataCancel, ch, sup, es, ctxDone, storeVars>>

BlockPreChecksWait ==
    /\ pc = "BlockPreChecks.wait"
    /\ runPreChecksDone(HeadB)
    /\ IF runPreChecksErr(HeadB)
       THEN /\ blockStatus' = [blockStatus EXCEPT ![HeadB] = Failed]
            /\ pc' = BlockFailedNext
       ELSE /\ blockStatus' = blockStatus
            /\ pc' = "BlockStartContChecks"
    /\ crun' = [c \in CheckIds |-> IF c \in PreCheckSets(HeadB) THEN "idle" ELSE crun[c]]
    /\ act' = [a \in ActionIds |-> Returned(a, PreCheckSets(HeadB))]
    /\ UNCHANGED <<plan, planStatus, planReason, chkState, seq, blocks, dataCancel, ch,
                   sup, es, ctxDone, storeVars>>

\* The handle after "ctx, h.contCancel = context.WithCancel(...)": h is the
\* state's copy of blocks[0]; the slice element is not written.
StartedHandle(h) == h

BlockStartContChecks ==
    /\ pc = "BlockStartContChecks"
    /\ IF plan.shape.cont
       THEN /\ blocks' = [blocks EXCEPT ![1] = StartedHandle(@)]
            /\ sup' = [sup EXCEPT ![HeadB].st = "wait"]
       ELSE UNCHANGED <<blocks, sup>>
    /\ pc' = "ExecuteSequences"
    /\ UNCHANGED <<treeVars, seq, act, crun, dataCancel, ch, es, ctxDone, storeVars>>


\* ---------------------------------------------------------------- ExecuteSequences
\* (mutant) a pool with one worker too many.
PoolSizeWide == plan.shape.conc + 1

\* pooled.New(name, h.block.Concurrency): the number of worker goroutines.
PoolSize == plan.shape.conc

\* The sequences of block b handed to the pool and not yet finished.
InFlight(b) == {s \in 1..MaxSeqs : seq[<<b, s>>].phase \notin {"none", "done"}}

\* pool.Submit blocks while every worker is busy.
PoolFull(b) == Cardinality(InFlight(b)) >= PoolSize

\* (mutant) the state returns without closing the pool.
PoolNotAwaited(b) == TRUE

\* pool.Close (deferred) waits for the submitted jobs.
PoolClosed(b) == InFlight(b) = {}

\* (mutant) the test without "ToleratedFailures >= 0".
ToleranceExceededSigned == es.failures > plan.shape.tol

\* "h.block.ToleratedFailures >= 0 && failures > h.block.ToleratedFailures"
ToleranceExceeded == plan.shape.tol >= 0 /\ es.failures > plan.shape.tol

\* The state up to its loop: the pool, failures := 0, i := 0.
ExecuteSequences ==
    /\ pc = "ExecuteSequences"
    /\ es' = [i |-> 1, failures |-> 0, next |-> BlockFailedNext]
    /\ pc' = "ES.loop"
    /\ UNCHANGED <<treeVars, seq, act, crun, blocks, dataCancel, ch, sup, ctxDone, storeVars>>

\* (mutant) the result of the poll is dropped.
PollFailedNever(r) == FALSE

\* "if _, err := req.Data.contChecks(); err != nil"
PollFailed(r) == r.err # "nil"

\* The loop condition and the two tests that precede pool.Submit.
ExecuteSequencesLoop ==
    /\ pc = "ES.loop"
    /\ IF es.i > plan.shape.nseq
       THEN /\ es' = [es EXCEPT !.next = "BlockPostChecks"]
            /\ pc' = "ES.close"
            /\ UNCHANGED <<blockStatus, ch>>
       ELSE IF ToleranceExceeded
       THEN /\ blockStatus' = [blockStatus EXCEPT ![HeadB] = Failed]
            /\ pc' = "ES.close"
            /\ UNCHANGED <<es, ch>>
       ELSE \E r \in contChecks :
            /\ ch' = r.ch
            /\ IF PollFailed(r)
               THEN /\ blockStatus' = [blockStatus EXCEPT ![HeadB] = Failed]
                    /\ pc' = "ES.close"
               ELSE /\ blockStatus' = blockStatus
                    /\ pc' = "ES.submit"
            /\ es' = es
    /\ UNCHANGED <<plan, planStatus, planReason, chkState, seq, act, crun, blocks,
                   dataCancel, sup, ctxDone, storeVars>>

\* pool.Submit: a free worker takes the sequence; i++.
ExecuteSequencesSubmit ==
    /\ pc = "ES.submit"
    /\ ~PoolFull(HeadB)
    /\ seq' = [seq EXCEPT ![<<HeadB, es.i>>].phase = "submitted"]
    /\ es' = [es EXCEPT !.i = @ + 1]
    /\ pc' = "ES.loop"
    /\ UNCHANGED <<treeVars, act, crun, blocks, dataCancel, ch, sup, ctxDone, storeVars>>

\* The return of the state: the deferred pool.Close, then req.Next (nil on the
\* failure paths).
ExecuteSequencesClose ==
    /\ pc = "ES.close"
    /\ PoolClosed(HeadB)
    /\ pc' = es.next
    /\ UNCHANGED <<treeVars, seq, act, crun, blocks, dataCancel, ch, sup, es, ctxDone, storeVars>>

\* ---------------------------------------------------------------- execSeq and the pool job
\* Status Running and the call of runAction on the first action.
execSeqBegin(b, s) ==
    /\ Alive
    /\ seq[<<b, s>>].phase = "submitted"
    /\ seq' = [seq EXCEPT ![<<b, s>>].status = Running,
                          ![<<b, s>>].cur = 1,
                          ![<<b, s>>].phase = "running"]
    /\ act' = [act EXCEPT ![SeqAction(b, s, 1)] = runActionBegin(@)]
    /\ stored' = [stored EXCEPT !.seq[<<b, s>>] = Running]
    /\ UNCHANGED <<treeVars, crun, pc, blocks, dataCancel, ch, sup, es, ctxDone, finalVars>>

\* What the store holds of a sequence: the write that follows Status Running,
\* then nothing until the deferred writer.Write, which runs when execSeq
\* returns and writes the status of that moment.
SeqWritten(q) == IF q.phase = "running" THEN Running ELSE q.status

\* (mutant) the error of runAction is ignored by the loop.
runActionErrIgnored(a) == FALSE

\* "if err := s.runAction(...); err != nil" in the loop of execSeq.
runActionErr(a) == act[a].phase = "err"

\* runAction has returned.  An error: the sequence is Failed, execSeq returns it
\* and the job reads failures for its "failures++".  No error: the next action,
\* or the sequence is Completed.
execSeqNext(b, s) ==
    LET k == seq[<<b, s>>].cur
        a == SeqAction(b, s, k)
    IN  /\ Alive
        /\ seq[<<b, s>>].phase = "running"
        /\ act[a].phase \in {"ok", "err"}
        /\ IF runActionErr(a)
           THEN /\ seq' = [seq EXCEPT ![<<b, s>>].status = Failed,
                                      ![<<b, s>>].tmp = es.failures,
                                      ![<<b, s>>].phase = "inc"]
                /\ act' = [act EXCEPT ![a].phase = "none"]
           ELSE IF k < plan.shape.nact
           THEN /\ seq' = [seq EXCEPT ![<<b, s>>].cur = k + 1]
                /\ act' = [act EXCEPT ![a].phase = "none",
                                      ![SeqAction(b, s, k + 1)] = runActionBegin(@)]
           ELSE /\ seq' = [seq EXCEPT ![<<b, s>>].status = Completed,
                                      ![<<b, s>>].phase = "done"]
                /\ act' = [act EXCEPT ![a].phase = "none"]
        /\ stored' = [stored EXCEPT !.seq[<<b, s>>] = SeqWritten(seq'[<<b, s>>])]
        /\ UNCHANGED <<treeVars, crun, pc, blocks, dataCancel, ch, sup, es, ctxDone, finalVars>>

\* The write of "failures++" (an unsynchronised read-modify-write of the
\* variable shared by the jobs and the loop), and the end of the job.
failuresInc(b, s) ==
    /\ Alive
    /\ seq[<<b, s>>].phase = "inc"
    /\ es' = [es EXCEPT !.failures = seq[<<b, s>>].tmp + 1]
    /\ seq' = [seq EXCEPT ![<<b, s>>].phase = "done"]
    /\ UNCHANGED <<treeVars, act, crun, pc, blocks, dataCancel, ch, sup, ctxDone, storeVars>>

execSeq(b, s) == execSeqBegin(b, s) \/ execSeqNext(b, s) \/ failuresInc(b, s)


\* ---------------------------------------------------------------- BlockPostChecks, BlockEnd
\* The call of a stored cancel function: the supervisor's context is done.
Cancel(x) == [sup EXCEPT ![x].cancelled = TRUE]

\* "s.runChecks(req.Ctx, X.PostChecks.Actions, writer)": a nil PostChecks is
\* dereferenced (panic), else the checks are started and awaited at waitpc.
PostChecksGo(s, waitpc) ==
    IF HasChecks(plan, <<"Post", s>>)
    THEN /\ crun' = [crun EXCEPT ![<<"Post", s>>] = "launched"]
         /\ pc' = waitpc
    ELSE /\ crun' = crun
         /\ pc' = "panic"

\* With ContChecks: h.contCancel() (a nil function panics), then the receive.
\* Without: the post-checks.
BlockPostChecks ==
    /\ pc = "BlockPostChecks"
    /\ IF plan.shape.cont
       THEN /\ IF Head1.contCancel
               THEN sup' = Cancel(HeadB) /\ pc' = "BlockPostChecks.recv"
               ELSE sup' = sup /\ pc' = "panic"
            /\ crun' = crun
       ELSE /\ PostChecksGo(HeadB, "BlockPostChecks.wait")
            /\ sup' = sup
    /\ UNCHANGED <<treeVars, seq, act, blocks, dataCancel, ch, es, ctxDone, storeVars>>

\* "err := <-h.contCheckResult" of BlockPostChecks, then the post-checks.
BlockPostChecksRecv ==
    /\ pc = "BlockPostChecks.recv"
    /\ Ready(HeadB)
    /\ ch' = RecvChan(HeadB)
    /\ IF RecvErr(HeadB) # "nil"
       THEN /\ blockStatus' = [blockStatus EXCEPT ![HeadB] = Failed]
            /\ pc' = BlockFailedNext
            /\ crun' = crun
       ELSE /\ blockStatus' = blockStatus
            /\ PostChecksGo(HeadB, "BlockPostChecks.wait")
    /\ UNCHANGED <<plan, planStatus, planReason, chkState, seq, act, blocks, dataCancel,
                   sup, es, ctxDone, storeVars>>

\* runChecks on the PostChecks has returned.
BlockPostChecksWait ==
    /\ pc = "BlockPostChecks.wait"
    /\ ChecksDone(<<"Post", HeadB>>)
    /\ IF ChecksErr(<<"Post", HeadB>>)
       THEN /\ blockStatus' = [blockStatus EXCEPT ![HeadB] = Failed]
            /\ pc' = BlockFailedNext
       ELSE /\ blockStatus' = blockStatus
            /\ pc' = "BlockEnd"
    /\ crun' = [crun EXCEPT ![<<"Post", HeadB>>] = "idle"]
    /\ act' = [a \in ActionIds |-> Returned(a, {<<"Post", HeadB>>})]
    /\ UNCHANGED <<plan, planStatus, planReason, chkState, seq, blocks, dataCancel, ch,
                   sup, es, ctxDone, storeVars>>

\* h.contCancel() of BlockEnd: called whether or not the block has ContChecks.
BlockEnd ==
    /\ pc = "BlockEnd"
    /\ IF Head1.contCancel
       THEN sup' = Cancel(HeadB) /\ pc' = "BlockEnd.recv"
       ELSE sup' = sup /\ pc' = "panic"
    /\ UNCHANGED <<treeVars, seq, act, crun, blocks, dataCancel, ch, es, ctxDone, storeVars>>

\* "err := <-h.contCheckResult" of BlockEnd: Completed on nil, else Failed; the
\* block is popped and the next state is ExecuteBlock.
BlockEndRecv ==
    /\ pc = "BlockEnd.recv"
    /\ Ready(HeadB)
    /\ ch' = RecvChan(HeadB)
    /\ blockStatus' = [blockStatus EXCEPT
                          ![HeadB] = IF RecvErr(HeadB) = "nil" THEN Completed ELSE Failed]
    /\ stored' = [stored EXCEPT !.block[HeadB] = blockStatus'[HeadB]]
    /\ blocks' = Tail(blocks)
    /\ pc' = "ExecuteBlock"
    /\ UNCHANGED <<plan, planStatus, planReason, chkState, seq, act, crun, dataCancel,
                   sup, es, ctxDone, finalVars>>

\* ---------------------------------------------------------------- PlanPostChecks
PlanPostChecks ==
    /\ pc = "PlanPostChecks"
    /\ IF plan.cont
       THEN /\ IF dataCancel
               THEN sup' = Cancel(0) /\ pc' = "PlanPostChecks.recv"
               ELSE sup' = sup /\ pc' = "panic"
            /\ crun' = crun
       ELSE /\ PostChecksGo(0, "PlanPostChecks.wait")
            /\ sup' = sup
    /\ UNCHANGED <<treeVars, seq, act, blocks, dataCancel, ch, es, ctxDone, storeVars>>

PlanPostChecksRecv ==
    /\ pc = "PlanPostChecks.recv"
    /\ Ready(0)
    /\ ch' = RecvChan(0)
    /\ IF RecvErr(0) # "nil"
       THEN pc' = "nil" /\ crun' = crun
       ELSE PostChecksGo(0, "PlanPostChecks.wait")
    /\ UNCHANGED <<treeVars, seq, act, blocks, dataCancel, sup, es, ctxDone, storeVars>>

\* The state returns with no Next whether the post-checks failed or not.
PlanPostChecksWait ==
    /\ pc = "PlanPostChecks.wait"
    /\ ChecksDone(<<"Post", 0>>)
    /\ pc' = "nil"
    /\ crun' = [crun EXCEPT ![<<"Post", 0>>] = "idle"]
    /\ act' = [a \in ActionIds |-> Returned(a, {<<"Post", 0>>})]
    /\ UNCHANGED <<treeVars, seq, blocks, dataCancel, ch, sup, es, ctxDone, storeVars>>

\* ---------------------------------------------------------------- the environment
\* The caller cancels req.Ctx.
CancelCtx ==
    /\ Alive
    /\ ~ctxDone
    /\ ctxDone' = TRUE
    /\ UNCHANGED <<treeVars, seq, act, crun, pc, blocks, dataCancel, ch, sup, es, storeVars>>

\* ---------------------------------------------------------------- the run of a plan
\* The steps a run of the machine on a stored plan can take.  The receives of
\* BlockPostChecks and BlockEnd and the PlanPostChecks state are not among
\* them: no run reaches them (see BlockPostChecks, BlockEnd).
Next ==
    \/ Start
    \/ PlanPreChecks
    \/ PlanPreChecksWait
    \/ PlanStartContChecks
    \/ ExecuteBlock
    \/ BlockPreChecks
    \/ BlockPreChecksWait
    \/ BlockStartContChecks
    \/ ExecuteSequences
    \/ ExecuteSequencesLoop
    \/ ExecuteSequencesSubmit
    \/ ExecuteSequencesClose
    \/ BlockPostChecks
    \/ BlockPostChecksWait
    \/ BlockEnd
    \/ CancelCtx
    \/ \E c \in CheckIds : runChecks(c)
    \/ \E a \in ActionIds : runAction(a)
    \/ \E x \in Scopes : runContChecks(x)
    \/ \E x \in SeqIds : execSeq(x[1], x[2])

Spec == Init /\ [][Next]_vars

\* The run on a plan of SeqPlans: the steps that concern no check.
NextSeq ==
    \/ Start
    \/ PlanPreChecks
    \/ PlanStartContChecks
    \/ ExecuteBlock
    \/ BlockPreChecks
    \/ BlockStartContChecks
    \/ ExecuteSequences
    \/ ExecuteSequencesLoop
    \/ ExecuteSequencesSubmit
    \/ ExecuteSequencesClose
    \/ BlockPostChecks
    \/ CancelCtx
    \/ \E a \in ActionIds : runAction(a)
    \/ \E x \in SeqIds : execSeq(x[1], x[2])

SpecSeq == InitSeq /\ [][NextSeq]_vars

\* The same steps on a plan of ActPlans.
SpecActs == InitActs /\ [][NextSeq]_vars

\* The run on a plan of RetryPlans.
NextRetry ==
    \/ Start
    \/ PlanPreChecks
    \/ PlanPreChecksWait
    \/ PlanStartContChecks
    \/ ExecuteBlock
    \/ BlockPreChecks
    \/ BlockStartContChecks
    \/ ExecuteSequences
    \/ ExecuteSequencesLoop
    \/ ExecuteSequencesSubmit
    \/ ExecuteSequencesClose
    \/ BlockPostChecks
    \/ CancelCtx
    \/ \E c \in CheckIds : runChecks(c)
    \/ \E a \in ActionIds : runAction(a)
    \/ \E x \in Scopes : runContChecks(x)
    \/ \E x \in SeqIds : execSeq(x[1], x[2])

SpecRetry == InitRetry /\ [][NextRetry]_vars

\* The same steps on a plan of ChkPlans.
SpecChk == InitChk /\ [][NextRetry]_vars

\* The run on a plan of ContPlans.
NextCont ==
    \/ Start
    \/ PlanPreChecks
    \/ PlanPreChecksWait
    \/ PlanStartContChecks
    \/ ExecuteBlock
    \/ BlockPreChecks
    \/ BlockPreChecksWait
    \/ BlockStartContChecks
    \/ ExecuteSequences
    \/ ExecuteSequencesLoop
    \/ ExecuteSequencesSubmit
    \/ ExecuteSequencesClose
    \/ BlockPostChecks
    \/ CancelCtx
    \/ \E c \in CheckIds : runChecks(c)
    \/ \E a \in ActionIds : runAction(a)
    \/ \E x \in Scopes : runContChecks(x)
    \/ \E x \in SeqIds : execSeq(x[1], x[2])

SpecCont == InitCont /\ [][NextCont]_vars

\* The run from a state entered with the head handle holding its cancel.
NextHandle ==
    \/ ExecuteBlock
    \/ BlockPreChecks
    \/ BlockPreChecksWait
    \/ BlockStartContChecks
    \/ ExecuteSequences
    \/ ExecuteSequencesLoop
    \/ ExecuteSequencesSubmit
    \/ ExecuteSequencesClose
    \/ BlockPostChecks
    \/ BlockPostChecksRecv
    \/ BlockPostChecksWait
    \/ BlockEnd
    \/ BlockEndRecv
    \/ PlanPostChecks
    \/ PlanPostChecksRecv
    \/ PlanPostChecksWait
    \/ CancelCtx
    \/ \E c \in CheckIds : runChecks(c)
    \/ \E a \in ActionIds : runAction(a)
    \/ \E x \in Scopes : runContChecks(x)
    \/ \E x \in SeqIds : execSeq(x[1], x[2])

SpecHandle == InitHandle /\ [][NextHandle]_vars

\* ---------------------------------------------------------------- finalStates
\* statemachine.Run calls req.Next until it is nil or req.Err is set.
FinalRuns(state) == fpc = state /\ fErr = "nil"

\* (mutant) the reason of the failed node is not recorded.
FailureOfNone(k) == FRUnknown

\* The FailureReason examineChecks gives for the node at each index.
FailureOf(k) ==
    CASE k = "Pre" -> FRPreCheck
      [] k = "Cont" -> FRContCheck
      [] OTHER -> FRPostCheck

\* (mutant) every error is the plain failure error.
ErrorOfFailure(status) == "failure"

\* The error for a node that is not Completed: a failure, or for any other
\* status one that wraps ErrInternalFailure.
ErrorOf(status) == IF status = Failed THEN "failure" ELSE "internal"

\* The pair (FailureReason, error) examineChecks returns for the three nodes:
\* the first node that is present and not Completed decides.
RECURSIVE examineChecks(_)
examineChecks(kinds) ==
    IF kinds = <<>> THEN <<FRUnknown, "nil">>
    ELSE LET st == chkState[Head(kinds)]
         IN  IF st = "nil" \/ st = Completed THEN examineChecks(Tail(kinds))
             ELSE <<FailureOf(Head(kinds)), ErrorOf(st)>>

\* (mutant) the nodes examined in the opposite order.
CheckOrderReversed == <<"Post", "Cont", "Pre">>

\* [3]*workflow.Checks{plan.PreChecks, plan.ContChecks, plan.PostChecks}
CheckOrder == <<"Pre", "Cont", "Post">>

finalStart ==
    /\ FinalRuns("start")
    /\ fpc' = "planChecks"
    /\ UNCHANGED <<treeVars, seq, act, crun, pc, blocks, dataCancel, ch, sup, es, ctxDone, fErr, stream, stored>>

finalPlanChecks ==
    LET r == examineChecks(CheckOrder)
    IN  /\ FinalRuns("planChecks")
        /\ IF r[2] = "nil"
           THEN /\ fpc' = "blocks"
                /\ UNCHANGED <<planStatus, planReason, fErr>>
           ELSE /\ planStatus' = Failed
                /\ planReason' = r[1]
                /\ fErr' = r[2]
                /\ fpc' = "end"
        /\ UNCHANGED <<plan, chkState, blockStatus, seq, act, crun, pc, blocks, dataCancel,
                       ch, sup, es, ctxDone, stream, stored>>

\* (mutant) no block is examined.
NotCompletedNone == {}

\* The blocks of Plan.Blocks that are not Completed, in order.
NotCompleted == {b \in 1..plan.nblocks : blockStatus[b] # Completed}
FirstNotCompleted == CHOOSE b \in NotCompleted : \A c \in NotCompleted : b <= c

finalBlocks ==
    /\ FinalRuns("blocks")
    /\ IF NotCompleted = {}
       THEN /\ fpc' = "end"
            /\ UNCHANGED <<planStatus, planReason, fErr>>
       ELSE /\ planStatus' = Failed
            /\ planReason' = FRBlock
            /\ fErr' = ErrorOf(blockStatus[FirstNotCompleted])
            /\ fpc' = "nil"
    /\ UNCHANGED <<plan, chkState, blockStatus, seq, act, crun, pc, blocks, dataCancel,
                   ch, sup, es, ctxDone, stream, stored>>

finalEnd ==
    /\ FinalRuns("end")
    /\ planStatus' = Completed
    /\ fpc' = "nil"
    /\ UNCHANGED <<plan, planReason, chkState, blockStatus, seq, act, crun, pc, blocks,
                   dataCancel, ch, sup, es, ctxDone, fErr, stream, stored>>

\* The finalizer has returned from statemachine.Run.
FinalReturned == fpc = "nil" \/ fErr # "nil"

\* The finalizer on any tree: every status of the plan's check nodes (or no
\* node) and of the blocks; the plan as States.Start leaves it.
NodeStates == Status \cup {"nil"}

InitFinal ==
    /\ chkState \in [CheckKinds -> NodeStates]
    /\ blockStatus \in [BlockIds -> Status]
    /\ plan = [pre |-> chkState["Pre"] # "nil", cont |-> chkState["Cont"] # "nil",
               post |-> chkState["Post"] # "nil", nblocks |-> MaxBlocks, retries |-> 0,
               nchk |-> 1,
               shape |-> [pre |-> FALSE, cont |-> FALSE, post |-> FALSE,
                          conc |-> 1, tol |-> 0, nseq |-> 1, nact |-> 1]]
    /\ planStatus = Started
    /\ planReason = FRUnknown
    /\ seq = [x \in SeqIds |-> NoSeq]
    /\ act = [a \in ActionIds |-> NoAction]
    /\ crun = [c \in CheckIds |-> "idle"]
    /\ blocks = <<>>
    /\ dataCancel = FALSE
    /\ ch = [x \in Scopes |-> NoChan]
    /\ sup = [x \in Scopes |-> NoSup]
    /\ es = NoLoop
    /\ ctxDone = FALSE
    /\ pc = "nil"
    /\ fpc = "start"
    /\ fErr = "nil"
    /\ stream = NoStream
    /\ stored = Written

NextFinal == finalStart \/ finalPlanChecks \/ finalBlocks \/ finalEnd

SpecFinal == InitFinal /\ [][NextFinal]_vars

\* ---------------------------------------------------------------- Workstream.Status
\* The caller of Status reads at most this many Results from the channel.
MaxResults == 3

\* Result{Data: nil, Err: ctx.Err()} and Result{Data: plan, Err: nil}.
ResultErr == "ctxErr"
ResultPlan == "plan"

streamOnly == <<plan, planReason, chkState, blockStatus, seq, act, crun, pc, blocks,
                dataCancel, ch, sup, es, ctxDone, fpc, fErr, stored>>

\* The goroutine returns: the deferred t.Stop() and close(ch) run, on the
\* channel that Status made first.
StatusReturn(s, why) == [s EXCEPT !.gpc = "done", !.closed = TRUE, !.end = why]

\* case <-t.C: the plan is read from the store.  A read error returns; a
\* plan whose status is not Running is sent on a channel made here (the
\* name ch is declared anew in the if block), which is closed, and the
\* goroutine returns; else the loop goes on.
StatusTick ==
    /\ stream.gpc = "select"
    /\ \E readErr \in BOOLEAN :
          stream' = IF readErr THEN StatusReturn(stream, "read")
                    ELSE IF planStatus # Running
                    THEN StatusReturn([stream EXCEPT !.inner = <<ResultPlan>>], "plan")
                    ELSE stream
    /\ UNCHANGED <<streamOnly, planStatus>>

\* case <-ctx.Done(): the goroutine goes to send the Result with Err set.
StatusCtxDone ==
    /\ stream.gpc = "select"
    /\ ctxDone
    /\ stream' = [stream EXCEPT !.gpc = "send"]
    /\ UNCHANGED <<streamOnly, planStatus>>

\* ch <- Result{Err: ctx.Err()}: blocks while the buffer is full; the case has
\* no return, so the loop selects again.
StatusSend ==
    /\ stream.gpc = "send"
    /\ Len(stream.buf) < ChanCap
    /\ stream' = [stream EXCEPT !.buf = Append(@, ResultErr),
                                !.sent = Append(@, ResultErr),
                                !.gpc = "select"]
    /\ UNCHANGED <<streamOnly, planStatus>>

\* The caller takes a Result from the channel Status returned.
StatusRecv ==
    /\ stream.gpc # "none"
    /\ stream.buf # <<>>
    /\ stream.got < MaxResults
    /\ stream' = [stream EXCEPT !.buf = Tail(@), !.got = @ + 1]
    /\ UNCHANGED <<streamOnly, planStatus>>

\* The executor writes the plan with another status to the store.
StoreUpdate ==
    /\ stream.gpc # "none"
    /\ \E s \in Status \ {planStatus} : planStatus' = s
    /\ UNCHANGED <<streamOnly, stream>>

\* Status has returned its channel and started the goroutine, on a plan as
\* Submit stored it; StoreUpdate gives it every later status.
InitStatus ==
    /\ \E p \in RetryPlans : InitTree(p) /\ p.retries = 0
    /\ pc = "nil"
    /\ fpc = "idle"
    /\ fErr = "nil"
    /\ stream = [NoStream EXCEPT !.gpc = "select"]
    /\ stored = Written

NextStatus ==
    \/ StatusTick
    \/ StatusCtxDone
    \/ StatusSend
    \/ StatusRecv
    \/ StoreUpdate
    \/ CancelCtx

SpecStatus == InitStatus /\ [][NextStatus]_vars

\* ================================================================ properties
Terminal == {Completed, Failed, Stopped}

\* The actions, sequences and blocks the plan has.
PlanActions ==
    {a \in ActionIds :
        IF a[1] = "Seq"
        THEN a[2] <= plan.nblocks /\ a[3] <= plan.shape.nseq /\ a[4] <= plan.shape.nact
        ELSE HasChecks(plan, <<a[1], a[2]>>) /\ a[4] <= plan.nchk}
PlanBlocks == 1..plan.nblocks
PlanSeqs == {x \in SeqIds : x[1] <= plan.nblocks /\ x[2] <= plan.shape.nseq}

\* C1: every action has at most Retries + 1 attempts, in every state of
\* runAction, through retries and through the resets of continuous-check
\* ticks; an attempt appended once len(Attempts) > Retries would break the
\* bound, so the plugin is not executed again then.
C1_AttemptsBound ==
    \A a \in ActionIds : Len(act[a].attempts) <= plan.retries + 1

\* A continuous-check action that, in a tick after its reset, has used every
\* attempt of Retries = MaxRetries and was stopped by the guard.
C1_Witness ==
    \E a \in PlanActions :
        /\ a[1] = "Cont"
        /\ sup[a[2]].st = "tick"
        /\ plan.retries = MaxRetries
        /\ Len(act[a].attempts) = plan.retries + 1
        /\ act[a].phase = "err"

\* C2: once the finalizer machine has returned, the plan's FailureReason is
\* Unknown iff the plan is Completed, and not Unknown iff the plan is Failed.
C2_ReasonIffStatus ==
    FinalReturned =>
        /\ (planReason = FRUnknown) <=> (planStatus = Completed)
        /\ (planReason # FRUnknown) <=> (planStatus = Failed)

\* The finalizer has returned on a tree with a failed ContChecks node behind a
\* Completed PreChecks node.
C2_Witness ==
    /\ FinalReturned
    /\ chkState["Pre"] = Completed
    /\ chkState["Cont"] = Failed
    /\ planStatus = Failed
    /\ planReason = FRContCheck

\* C3: when the plan machine has stopped without an error (it returned with
\* req.Next nil; no state sets req.Err), the plan, its check nodes, its blocks,
\* their sequences and every action have a terminal status.
C3_AllTerminalWhenStopped ==
    pc = "nil" =>
        /\ planStatus \in Terminal
        /\ \A k \in CheckKinds : chkState[k] \in Terminal \cup {"nil"}
        /\ \A b \in PlanBlocks : blockStatus[b] \in Terminal
        /\ \A x \in PlanSeqs : seq[x].status \in Terminal
        /\ \A a \in PlanActions : act[a].status \in Terminal

\* C4: the sequences of a block that are executing at the same time are never
\* more than the block's Concurrency.
Executing(b) == {s \in 1..MaxSeqs : seq[<<b, s>>].status = Running}

C4_ConcurrencyBound ==
    \A b \in PlanBlocks : Cardinality(Executing(b)) <= plan.shape.conc

\* A block with more sequences than its Concurrency of MaxConc has exactly
\* Concurrency sequences executing.
C4_Witness ==
    /\ plan.shape.conc = MaxConc
    /\ plan.shape.nseq > plan.shape.conc
    /\ Cardinality(Executing(1)) = plan.shape.conc

SeqStarted(b) == \E s \in 1..plan.shape.nseq : seq[<<b, s>>].phase # "none"

C6_ChecksBeforeSequences ==
    \A b \in PlanBlocks :
        SeqStarted(b) =>
            /\ plan.shape.pre =>
                  \A a \in CheckActions(<<"Pre", b>>) : act[a].status = Completed
            /\ plan.shape.cont => sup[b].st # "none"

\* C7: on the result channel of a supervisor at most one value is sent, the
\* channel is closed at most once, and it is closed exactly once when the
\* supervisor has terminated; only a started supervisor sends or closes.
C7_OneSendOneClose ==
    \A x \in Scopes :
        /\ ch[x].sends <= 1
        /\ ch[x].closes <= 1
        /\ sup[x].st = "done" => ch[x].closes = 1 /\ ch[x].closed
        /\ sup[x].st = "none" => ch[x].sends = 0 /\ ch[x].closes = 0

\* The plan-level supervisor has terminated on its cancelled context without
\* a send, and the supervisor of a block after the send of a failed tick.
C7_Witness ==
    /\ sup[0].st = "done" /\ ch[0].sends = 0 /\ ch[0].closes = 1
    /\ \E b \in PlanBlocks :
          sup[b].st = "done" /\ ch[b].sends = 1 /\ ch[b].closes = 1

\* C8: while the PostChecks of a block run, no sequence of the block is in
\* flight, and the block's continuous-check supervisor, if the block has
\* ContChecks, has closed its channel.
PostChecksActive(b) ==
    \/ crun[<<"Post", b>>] # "idle"
    \/ \E a \in CheckActions(<<"Post", b>>) : act[a].status # NotStarted

C8_PostChecksAfterSequences ==
    \A b \in PlanBlocks :
        PostChecksActive(b) =>
            /\ InFlight(b) = {}
            /\ \A s \in 1..plan.shape.nseq : seq[<<b, s>>].status \in {Completed, Failed}
            /\ plan.shape.cont => ch[b].closed

\* The post-check actions of block 1 are Running after its sequence finished.
C8_Witness ==
    /\ crun[<<"Post", 1>>] = "running"
    /\ \E a \in CheckActions(<<"Post", 1>>) : act[a].status = Running
    /\ seq[<<1, 1>>].status \in {Completed, Failed}

\* C9: once ExecuteSequences has returned, a block with ToleratedFailures t >= 0
\* of which more than t sequences failed is Failed.
ExecuteSequencesReturned ==
    /\ blocks # <<>>
    /\ seq[<<HeadB, 1>>].phase # "none"
    /\ pc \in {"BlockPostChecks", "BlockPostChecks.wait", "BlockEnd", "nil", "panic"}

FailedSeqs(b) == {s \in 1..plan.shape.nseq : seq[<<b, s>>].status = Failed}

C9_FailedAboveTolerance ==
    (/\ ExecuteSequencesReturned
     /\ plan.shape.tol >= 0
     /\ Cardinality(FailedSeqs(HeadB)) > plan.shape.tol)
        => blockStatus[HeadB] = Failed

\* C10: with Concurrency 1 and ToleratedFailures t >= 0, no sequence is started
\* when t + 1 sequences before it have failed.
C10_NoStartAfterTolerance ==
    (plan.shape.conc = 1 /\ plan.shape.tol >= 0) =>
        \A b \in PlanBlocks : \A s \in 1..plan.shape.nseq :
            seq[<<b, s>>].phase # "none" =>
                Cardinality({r \in FailedSeqs(b) : r < s}) <= plan.shape.tol

\* C11: with ToleratedFailures = -1 the block is never marked Failed for the
\* failures of its sequences, and when ExecuteSequences has returned every
\* sequence of the block was submitted and has finished, its plugin called
\* once (Retries 0) unless the request's context was cancelled.
C11_UnlimitedTolerance ==
    plan.shape.tol = -1 =>
        \A b \in PlanBlocks :
            /\ blockStatus[b] # Failed
            /\ (ExecuteSequencesReturned /\ HeadB = b) =>
                  \A s \in 1..plan.shape.nseq :
                      /\ seq[<<b, s>>].phase = "done"
                      /\ Len(act[SeqAction(b, s, 1)].attempts) <= 1
                      /\ ~ctxDone => Len(act[SeqAction(b, s, 1)].attempts) = 1

\* Three of three sequences failed, each after one call of the plugin, and
\* ExecuteSequences has returned to BlockPostChecks with the block Running.
C11_Witness ==
    /\ plan.shape.tol = -1
    /\ plan.shape.nseq = MaxSeqs
    /\ pc = "BlockPostChecks"
    /\ Cardinality(FailedSeqs(1)) = MaxSeqs
    /\ \A s \in 1..MaxSeqs : Len(act[SeqAction(1, s, 1)].attempts) = 1
    /\ blockStatus[1] = Running

\* C12: when ExecuteSequences polls before a submission and a continuous-check
\* failure is waiting on the plan's or the block's result channel, the step
\* submits nothing more: it marks the block Failed and the state returns.
FailureAvailable == \E x \in {0, HeadB} : ch[x].buf # <<>>

C12_FailureStopsSubmission ==
    [][(/\ pc = "ES.loop"
        /\ pc' # pc
        /\ es.i <= plan.shape.nseq
        /\ FailureAvailable)
          => (pc' = "ES.close" /\ es'.next = "nil" /\ blockStatus'[HeadB] = Failed)]_vars

\* C13: a sequence handed to the pool and not yet Completed or Failed is never
\* left behind: while one is in flight the driver is still inside
\* ExecuteSequences of that block (at the latest in its deferred pool.Close),
\* whatever made the loop stop, and a finished sequence is Completed or Failed.
C13_InFlightAwaited ==
    \A b \in PlanBlocks : \A s \in 1..plan.shape.nseq :
        /\ seq[<<b, s>>].phase \notin {"none", "done"} =>
              /\ pc \in {"ES.loop", "ES.submit", "ES.close"}
              /\ HeadB = b
        /\ seq[<<b, s>>].phase = "done" => seq[<<b, s>>].status \in {Completed, Failed}

\* The loop has stopped on a continuous-check failure, the block is Failed,
\* and the state waits in pool.Close for the first sequence, still running.
C13_Witness ==
    /\ pc = "ES.close"
    /\ es.next = "nil"
    /\ blockStatus[1] = Failed
    /\ ch[1].sends = 1
    /\ seq[<<1, 1>>].status = Running
    /\ seq[<<1, 2>>].phase = "none"

\* The order of the statuses: NotStarted, then Started or Running, then the
\* terminal ones.
Rank(st) == IF st = NotStarted THEN 0 ELSE IF st \in {Started, Running} THEN 1 ELSE 2

\* A step from status old to status new moves forward and leaves a terminal
\* status alone.
Forward(old, new) == Rank(new) >= Rank(old) /\ (old \in Terminal => new = old)

TreeForward ==
    /\ Forward(planStatus, planStatus')
    /\ \A k \in CheckKinds : chkState'[k] = chkState[k] \/ Forward(chkState[k], chkState'[k])
    /\ \A b \in BlockIds : Forward(blockStatus[b], blockStatus'[b])
    /\ \A x \in SeqIds : Forward(seq[x].status, seq'[x].status)

\* C14 (as claimed): in every step the status of the plan, of every checks
\* node, block, sequence and action moves forward, and a terminal status
\* never changes.
C14_StatusForward ==
    [][TreeForward /\ \A a \in ActionIds : Forward(act[a].status, act'[a].status)]_vars

\* C14 (amended): the same for the plan, the checks nodes, the blocks, the
\* sequences and every action outside a ContChecks node; the status of an
\* action of a ContChecks node moves forward except in the step that starts a
\* tick of its supervisor, where resetActions returns it to NotStarted with no
\* attempts.
C14_StatusForwardButTicks ==
    [][/\ TreeForward
       /\ \A a \in ActionIds :
            \/ Forward(act[a].status, act'[a].status)
            \/ /\ a[1] = "Cont"
               /\ sup[a[2]].st = "wait" /\ sup'[a[2]].st = "tick"
               /\ act'[a].status = NotStarted /\ act'[a].attempts = <<>>]_vars

\* A tick of the plan's supervisor has just reset an action of the ContChecks
\* whose first pass had completed, beside a Completed pre-check action.
C14_Witness ==
    /\ sup[0].st = "tick"
    /\ crun[<<"Cont", 0>>] = "launched"
    /\ act[<<"Cont", 0, 0, 1>>].status = NotStarted
    /\ act[<<"Pre", 0, 0, 1>>].status = Completed

\* A plan checks node that is present and not Completed.
NotPassed(k) == chkState[k] \notin {"nil", Completed}

\* The reason the first entity that is not Completed stands for: the plan's
\* PreChecks, ContChecks, PostChecks, then the blocks.
FirstReason ==
    IF NotPassed("Pre") THEN FRPreCheck
    ELSE IF NotPassed("Cont") THEN FRContCheck
    ELSE IF NotPassed("Post") THEN FRPostCheck
    ELSE IF \E b \in PlanBlocks : blockStatus[b] # Completed THEN FRBlock
    ELSE FRUnknown

\* C15: when the finalizer has returned, the plan carries the outcome of the
\* first entity that is not Completed: Failed with the reason of that checks
\* node or with Block, and Completed with reason Unknown when every checks
\* node that is present and every block is Completed.
C15_FirstNotCompletedDecides ==
    FinalReturned =>
        /\ planReason = FirstReason
        /\ planStatus = IF FirstReason = FRUnknown THEN Completed ELSE Failed

\* The finalizer has returned on a plan without ContChecks whose PreChecks
\* are Completed and whose PostChecks are Failed.
C15_Witness ==
    /\ FinalReturned
    /\ chkState["Pre"] = Completed
    /\ chkState["Cont"] = "nil"
    /\ chkState["Post"] = Failed
    /\ planStatus = Failed
    /\ planReason = FRPostCheck

\* Every checks node of the plan and every block is Completed or Failed.
Finished ==
    /\ \A k \in CheckKinds : chkState[k] \in {"nil", Completed, Failed}
    /\ \A b \in PlanBlocks : blockStatus[b] \in {Completed, Failed}

\* C16: on a finished plan with several Failed entities the reason follows
\* PreCheck > ContCheck > PostCheck > Block: a Failed checks node wins over a
\* Failed block, and the earliest Failed node of Pre, Cont, Post wins.
C16_ReasonPrecedence ==
    (FinalReturned /\ Finished) =>
        /\ chkState["Pre"] = Failed => planReason = FRPreCheck
        /\ (chkState["Pre"] # Failed /\ chkState["Cont"] = Failed) =>
              planReason = FRContCheck
        /\ (chkState["Pre"] # Failed /\ chkState["Cont"] # Failed /\ chkState["Post"] = Failed) =>
              planReason = FRPostCheck
        /\ ((\A k \in CheckKinds : chkState[k] # Failed)
                /\ \E b \in PlanBlocks : blockStatus[b] = Failed) =>
              planReason = FRBlock

\* The finalizer has returned on a plan whose ContChecks, PostChecks and first
\* block are all Failed: the reason is ContCheck.
C16_Witness ==
    /\ FinalReturned
    /\ chkState["Pre"] = Completed
    /\ chkState["Cont"] = Failed
    /\ chkState["Post"] = Failed
    /\ blockStatus[1] = Failed
    /\ blockStatus[2] = Completed
    /\ planReason = FRContCheck

\* C17: the finalizer reports an error only for an invariant violation: when
\* its error is set, a checks node or a block was found in a status that is
\* neither Completed nor Failed.
C17_ErrorOnlyForInvariant ==
    fErr # "nil" => ~Finished

\* C18: an attempt whose response has the wrong type carries a permanent
\* error and is the last attempt of its run of runAction, whatever Retries
\* is: the action is Failed with it and is not retried.
C18_WrongTypeIsPermanent ==
    \A a \in ActionIds : \A i \in 1..Len(act[a].attempts) :
        act[a].attempts[i] = "perm" =>
            /\ i = Len(act[a].attempts)
            /\ act[a].status = Failed
            /\ act[a].phase # "retry"

\* With Retries = MaxRetries the action of the sequence is Failed with the one
\* attempt of the wrong type.
C18_Witness ==
    /\ plan.retries = MaxRetries
    /\ act[SeqAction(1, 1, 1)].attempts = <<"perm">>
    /\ act[SeqAction(1, 1, 1)].status = Failed
    /\ seq[<<1, 1>>].status = Failed

\* The machine has stopped: it returned or the driver panicked.
MachineStopped == pc \in {"nil", "panic"}

\* C19: when the machine has stopped after an action with Retries = 2 failed
\* all of its 3 attempts in a block of one sequence with ToleratedFailures 0,
\* the action, its sequence and its block are Failed and the plan is Failed
\* with FailureReason Block.
C19_FailurePropagates ==
    (/\ MachineStopped
     /\ plan.retries = 2 /\ plan.shape.nseq = 1 /\ plan.shape.tol = 0
     /\ act[SeqAction(1, 1, 1)].attempts = <<"err", "err", "err">>)
        => /\ act[SeqAction(1, 1, 1)].status = Failed
           /\ seq[<<1, 1>>].status = Failed
           /\ blockStatus[1] = Failed
           /\ planStatus = Failed
           /\ planReason = FRBlock

\* C20: when the machine has stopped on a plan without checks of one block
\* (Concurrency 1, ToleratedFailures 0) with one sequence of one action whose
\* plugin succeeded at the first try, it has returned without a panic, the
\* action has that one attempt and the plan is Completed with FailureReason
\* Unknown.
C20_HappyPath ==
    (/\ MachineStopped
     /\ plan.nblocks = 1 /\ plan.shape.nseq = 1 /\ plan.shape.nact = 1
     /\ plan.shape.conc = 1 /\ plan.shape.tol = 0
     /\ ~plan.pre /\ ~plan.cont /\ ~plan.post
     /\ ~plan.shape.pre /\ ~plan.shape.cont /\ ~plan.shape.post
     /\ act[SeqAction(1, 1, 1)].attempts = <<"nil">>)
        => /\ pc = "nil"
           /\ act[SeqAction(1, 1, 1)].status = Completed
           /\ blockStatus[1] = Completed
           /\ planStatus = Completed
           /\ planReason = FRUnknown

\* C21: when the machine has stopped after a poll of ExecuteSequences took the
\* failure of the first block's continuous check, a sequence of the block was
\* not started, every started one has finished, the block is Failed and the
\* plan is Failed with FailureReason ContCheck.
BlockCheckTripped ==
    /\ pc = "nil"
    /\ ch[1].sends = 1 /\ ch[1].buf = <<>>
    /\ ch[0].sends = 0
    /\ seq[<<1, 1>>].phase # "none"

C21_TrippedBlockCheck ==
    BlockCheckTripped =>
        /\ \E s \in 1..plan.shape.nseq : seq[<<1, s>>].phase = "none"
        /\ \A s \in 1..plan.shape.nseq : seq[<<1, s>>].phase \in {"none", "done"}
        /\ blockStatus[1] = Failed
        /\ planStatus = Failed
        /\ planReason = FRContCheck

\* C22: the step by which BlockPreChecks returns goes to BlockStartContChecks
\* with the block status unchanged when no check is present or the checks
\* passed, and marks the block Failed and goes to BlockEnd when PreChecks or
\* the first pass of ContChecks failed.
C22_BlockPreChecksNext ==
    [][/\ (pc = "BlockPreChecks" /\ pc' # pc) =>
             /\ pc' \in {"BlockPreChecks.wait", "BlockStartContChecks"}
             /\ blockStatus' = blockStatus
       /\ (pc = "BlockPreChecks.wait" /\ pc' # pc) =>
             IF runPreChecksErr(HeadB)
             THEN blockStatus'[HeadB] = Failed /\ pc' = "BlockEnd"
             ELSE blockStatus' = blockStatus /\ pc' = "BlockStartContChecks"]_vars

\* C23: BlockPostChecks always hands over to BlockEnd, without a fault: the
\* block status is unchanged when there are no PostChecks or they pass, and
\* Failed when a post-check failed.
InBlockPostChecks == pc \in {"BlockPostChecks", "BlockPostChecks.recv", "BlockPostChecks.wait"}

C23_BlockPostChecksNext ==
    [][(InBlockPostChecks /\ pc' # pc) =>
          \/ pc' \in {"BlockPostChecks.recv", "BlockPostChecks.wait"} /\ blockStatus' = blockStatus
          \/ /\ pc' = "BlockEnd"
             /\ IF pc = "BlockPostChecks.wait" /\ ChecksErr(<<"Post", HeadB>>)
                THEN blockStatus'[HeadB] = Failed
                ELSE blockStatus' = blockStatus]_vars

\* C28: the step by which PlanPreChecks returns after a failure of the
\* PreChecks or of the first pass of the ContChecks marks the plan Failed
\* with FailureReason PreCheck, or ContCheck when only the cont pass failed;
\* and no block is executed once the plan's pre-checks have failed.
C28_PlanPreChecksFailure ==
    [][(pc = "PlanPreChecks.wait" /\ pc' # pc /\ runPreChecksErr(0)) =>
          /\ planStatus' = Failed
          /\ planReason' = IF plan.pre /\ ChecksErr(<<"Pre", 0>>) THEN FRPreCheck
                           ELSE FRContCheck
          /\ \A b \in BlockIds : blockStatus'[b] = NotStarted]_vars

\* C29: once the supervisor of the head block has been started, the handle
\* of the block in Data.blocks holds the supervisor's cancel function.
C29_HandleHoldsCancel ==
    (blocks # <<>> /\ sup[HeadB].st # "none") => Head1.contCancel

\* C30: a supervisor stops only when its stored cancel function was called or
\* when one of its ticks failed; the cancellation of the request's context
\* alone stops none.
C30_SupervisorsDetached ==
    \A x \in Scopes :
        sup[x].st = "done" => sup[x].cancelled \/ ch[x].sends = 1

\* C24: BlockEnd cancels the context of the block's continuous checks; when
\* the result channel yields no error the block becomes Completed, the head
\* block is popped and the next state is ExecuteBlock; when it yields an
\* error the block becomes Failed, stays in Data.blocks and the machine ends.
C24_BlockEndOutcome ==
    [][(pc \in {"BlockEnd", "BlockEnd.recv"} /\ pc' # pc) =>
          \/ /\ pc = "BlockEnd"
             /\ pc' = "BlockEnd.recv"
             /\ sup'[HeadB].cancelled
          \/ /\ pc = "BlockEnd.recv"
             /\ RecvErr(HeadB) = "nil"
             /\ blockStatus'[HeadB] = Completed
             /\ blocks' = Tail(blocks)
             /\ pc' = "ExecuteBlock"
          \/ /\ pc = "BlockEnd.recv"
             /\ RecvErr(HeadB) # "nil"
             /\ blockStatus'[HeadB] = Failed
             /\ blocks' = blocks
             /\ pc' = "nil"]_vars

\* C25: PlanPostChecks cancels the plan's supervisor when the plan has
\* ContChecks and reads its result: an error makes the plan Failed with
\* reason ContCheck and no post-check runs; else the PostChecks run, and a
\* failure makes the plan Failed with reason PostCheck; without PostChecks
\* the state passes; it never faults, and it leaves the plan's status alone
\* when nothing failed.
PlanPassed == pc' = "nil" /\ planStatus' = planStatus /\ planReason' = planReason

PlanPostStarted ==
    IF plan.post
    THEN pc' = "PlanPostChecks.wait" /\ crun'[<<"Post", 0>>] = "launched"
    ELSE PlanPassed

C25_PlanPostChecksOutcome ==
    [][/\ (pc = "PlanPostChecks" /\ pc' # pc) =>
             IF plan.cont
             THEN pc' = "PlanPostChecks.recv" /\ sup'[0].cancelled
             ELSE PlanPostStarted
       /\ (pc = "PlanPostChecks.recv" /\ pc' # pc) =>
             IF RecvErr(0) # "nil"
             THEN /\ planStatus' = Failed /\ planReason' = FRContCheck
                  /\ pc' = "nil" /\ crun' = crun
             ELSE PlanPostStarted
       /\ (pc = "PlanPostChecks.wait" /\ pc' # pc) =>
             IF ChecksErr(<<"Post", 0>>)
             THEN planStatus' = Failed /\ planReason' = FRPostCheck /\ pc' = "nil"
             ELSE PlanPassed]_vars

C26_StatusStreamEnds ==
    /\ stream.end = "plan" =>
          stream.sent # <<>> /\ stream.sent[Len(stream.sent)] = ResultPlan
    /\ (stream.sent # <<>> /\ stream.sent[Len(stream.sent)] = ResultErr) =>
          stream.closed /\ stream.gpc = "done"
    /\ Cardinality({i \in DOMAIN stream.sent : stream.sent[i] = ResultErr}) <= 1

\* C31: while ExecuteSequences runs, the count of failures its tolerance test
\* reads equals the number of sequences of the block whose job has finished
\* with a failure; concurrent failures lose no increment.
FailedJobs(b) ==
    {s \in 1..plan.shape.nseq : seq[<<b, s>>].status = Failed /\ seq[<<b, s>>].phase = "done"}

C31_FailuresCounted ==
    (blocks # <<>> /\ pc \in {"ES.loop", "ES.submit", "ES.close"}) =>
        es.failures = Cardinality(FailedJobs(HeadB))

\* The values the supervisor x has sent on its result channel.
Sends(x) == ch[x].sends

\* C32 (as claimed): a supervisor whose context is cancelled before any tick
\* has failed sends no value, its channel is closed empty; a failed tick
\* sends its error once, no further tick runs and the channel is closed.
C32_CancelledFirstSendsNothing ==
    [][\A x \in Scopes :
          /\ (sup[x].st # "none" /\ SupCtxDone(x) /\ Sends(x) = 0) => ch'[x].sends = 0
          /\ (sup[x].st = "tick" /\ sup'[x].st # "tick" /\ ChecksErr(ContOf(x))) =>
                ch'[x].sends = 1 /\ ch'[x].buf = <<"err">> /\ sup'[x].st = "sent"
          /\ Sends(x) >= 1 => sup'[x].st \in {"sent", "done"} /\ crun'[ContOf(x)] = "idle"
          /\ sup'[x].st = "done" => ch'[x].closed]_vars

\* C32 (amended): a supervisor that leaves its select on ctx.Done closes its
\* channel with no value sent; a value is sent only at the end of a tick
\* whose check run failed, it is that error, sent once, no further tick runs
\* and the channel is closed.  A tick that is running when the context is
\* cancelled (its checks run under context.WithoutCancel) still sends its
\* error if it fails.
C32_SupervisorResult ==
    [][\A x \in Scopes :
          /\ (sup[x].st = "wait" /\ sup'[x].st = "done") =>
                SupCtxDone(x) /\ ch'[x].sends = 0 /\ ch'[x].buf = <<>>
          /\ ch'[x].sends > Sends(x) => sup[x].st = "tick" /\ ChecksErr(ContOf(x))
          /\ (sup[x].st = "tick" /\ sup'[x].st # "tick" /\ ChecksErr(ContOf(x))) =>
                ch'[x].sends = 1 /\ ch'[x].buf = <<"err">> /\ sup'[x].st = "sent"
          /\ Sends(x) >= 1 => sup'[x].st \in {"sent", "done"} /\ crun'[ContOf(x)] = "idle"
          /\ sup'[x].st = "done" => ch'[x].closed]_vars

\* The plan's supervisor was cancelled during a tick that then failed: the
\* error was sent after the cancel and the channel closed; and a supervisor of
\* a block has closed its channel after the send of a failed tick.
C32_Witness ==
    /\ ctxDone
    /\ sup[0].st = "done" /\ ch[0].sends = 1 /\ ch[0].closed
    /\ \E b \in PlanBlocks : sup[b].st = "done" /\ ch[b].sends = 1 /\ ch[b].closed

\* The actions of a sequence, in list order.
SeqActions(x) == [k \in 1..plan.shape.nact |-> act[SeqAction(x[1], x[2], k)]]

\* execSeq has returned on the sequence.
SeqReturned(x) == seq[x].phase \in {"inc", "done"}

\* C33: the actions of a sequence run one after another in list order: an
\* action has started only if every action before it is Completed; a
\* sequence that has returned is Failed exactly when one of its actions
\* failed, that action being the last one started, and Completed exactly when
\* all its actions are Completed; the store holds the sequence with that
\* status when execSeq has returned.
C33_SequenceInOrder ==
    \A x \in PlanSeqs :
        LET as == SeqActions(x)
        IN  /\ \A k \in DOMAIN as : \A j \in 1..(k - 1) :
                  as[k].status # NotStarted => as[j].status = Completed
            /\ Cardinality({k \in DOMAIN as : as[k].phase # "none"}) <= 1
            /\ SeqReturned(x) =>
                  /\ seq[x].status \in {Completed, Failed}
                  /\ seq[x].status = Failed <=> \E k \in DOMAIN as : as[k].status = Failed
                  /\ seq[x].status = Completed <=> \A k \in DOMAIN as : as[k].status = Completed
                  /\ \A k \in DOMAIN as : as[k].phase = "none"
                  /\ stored.seq[x] = seq[x].status

\* Two sequences of two actions have returned: one Completed after both of
\* its actions, one Failed at its first action with the second never started.
C33_Witness ==
    /\ plan.shape.nseq = 2
    /\ SeqReturned(<<1, 1>>) /\ SeqReturned(<<1, 2>>)
    /\ seq[<<1, 1>>].status = Completed
    /\ act[SeqAction(1, 1, 2)].status = Completed
    /\ seq[<<1, 2>>].status = Failed
    /\ act[SeqAction(1, 2, 1)].status = Failed
    /\ act[SeqAction(1, 2, 2)].status = NotStarted

\* An action of the check set c has failed.
SomeFailed(c) == \E a \in CheckActions(c) : act[a].status = Failed

\* C34: when an action of a check set executes or has executed, every action
\* of the set has been set to Running by the pre-pass (none is NotStarted);
\* runChecks returns only when every action of the set is Completed or
\* Failed, and it returns an error (the pre-checks stop the machine, the tick
\* of a supervisor sends) exactly when an action of the set has failed.
C34_RunChecksJoin ==
    [][/\ \A c \in CheckIds :
            /\ (\E a \in CheckActions(c) : act'[a].attempts # <<>> \/ act'[a].phase # "none") =>
                  \A a \in CheckActions(c) : act'[a].status # NotStarted
            /\ (crun[c] = "running" /\ crun'[c] = "idle") =>
                  \A a \in CheckActions(c) : act[a].status \in {Completed, Failed}
       /\ (pc = "PlanPreChecks.wait" /\ pc' # pc) =>
             (pc' = "nil" <=> \E c \in PreCheckSets(0) : SomeFailed(c))
       /\ (sup[0].st = "tick" /\ sup'[0].st # "tick") =>
             (ch'[0].sends = ch[0].sends + 1 <=> SomeFailed(ContOf(0)))]_vars

\* runChecks has returned an error on PreChecks of two actions, one Completed
\* and one Failed, and the machine has stopped.
C34_Witness ==
    /\ plan.nchk = 2
    /\ pc = "nil"
    /\ crun[<<"Pre", 0>>] = "idle"
    /\ act[<<"Pre", 0, 0, 1>>].status = Completed
    /\ act[<<"Pre", 0, 0, 2>>].status = Failed

\* The driver is between two states of the machine, or the machine has returned.
BetweenStates ==
    pc \in {"PlanPreChecks", "PlanStartContChecks", "ExecuteBlock", "BlockPreChecks",
            "BlockStartContChecks", "ExecuteSequences", "BlockPostChecks", "BlockEnd",
            "PlanPostChecks", "nil"}

\* C35: when a state of the plan machine has returned, the store holds the
\* plan and every block with the status they have in memory: a state that
\* changed one of them wrote it before returning.
C35_StatusWritten ==
    BetweenStates =>
        /\ stored.plan = planStatus
        /\ \A b \in PlanBlocks : stored.block[b] = blockStatus[b]

\* The status of the first entity the finalizer finds not Completed, in the
\* order PreChecks, ContChecks, PostChecks, blocks ("nil" when there is none).
FirstFound ==
    IF NotPassed("Pre") THEN chkState["Pre"]
    ELSE IF NotPassed("Cont") THEN chkState["Cont"]
    ELSE IF NotPassed("Post") THEN chkState["Post"]
    ELSE IF NotCompleted # {} THEN blockStatus[FirstNotCompleted]
    ELSE "nil"

\* C36: when the finalizer has returned after finding a checks node of the
\* plan or a block whose status is neither Completed nor Failed, the plan is
\* Failed, its reason is the scope of that entity and the error wraps
\* ErrInternalFailure.
C36_InvariantViolationReported ==
    (FinalReturned /\ FirstFound \notin {"nil", Failed}) =>
        /\ planStatus = Failed
        /\ planReason = FirstReason
        /\ fErr = "internal"

\* The finalizer has returned on a plan whose PreChecks are Completed, whose
\* ContChecks are still Running and whose first block is Failed.
C36_Witness ==
    /\ FinalReturned
    /\ chkState["Pre"] = Completed
    /\ chkState["Cont"] = Running
    /\ blockStatus[1] = Failed
    /\ planStatus = Failed
    /\ planReason = FRContCheck
    /\ fErr = "internal"

\* A step of the supervisor of scope x: of its loop, or of the check run of
\* one of its ticks.
SupStep(x) ==
    \/ (sup[x].st # "none" /\ sup'[x].st # sup[x].st)
    \/ /\ sup[x].st = "tick"
       /\ \/ crun'[ContOf(x)] # crun[ContOf(x)]
          \/ \E a \in CheckActions(ContOf(x)) : act'[a] # act[a]

\* C37: a step of a continuous-check supervisor changes only the actions of
\* the ContChecks it was given: the plan, its status and reason, the status of
\* every checks node, block and sequence and every other action stay as they
\* are.
C37_SupervisorFrame ==
    [][\A x \in Scopes :
          SupStep(x) =>
              /\ UNCHANGED <<plan, planStatus, planReason, chkState, blockStatus, seq, stored>>
              /\ \A a \in ActionIds \ CheckActions(ContOf(x)) : act'[a] = act[a]]_vars

\* A tick of a block's supervisor has just reset the block's ContChecks while
\* the action of the block's sequence has its attempt and the plan's
\* pre-check action is Completed.
C37_Witness ==
    \E b \in PlanBlocks :
        /\ sup[b].st = "tick"
        /\ crun[<<"Cont", b>>] = "launched"
        /\ act[<<"Cont", b, 0, 1>>].status = NotStarted
        /\ act[SeqAction(b, 1, 1)].attempts # <<>>
        /\ act[<<"Pre", 0, 0, 1>>].status = Completed

\* C38: the driver is never stuck in BlockPostChecks or BlockEnd: the cancel
\* function such a state is about to call is non-nil, and the channel it
\* reads belongs to a supervisor that was started and so will close it.
C38_DriverNeverStuck ==
    /\ (pc = "BlockPostChecks" /\ plan.shape.cont) => Head1.contCancel
    /\ pc = "BlockEnd" => Head1.contCancel
    /\ pc \in {"BlockPostChecks.recv", "BlockEnd.recv"} => sup[HeadB].st # "none"

\* The error a supervisor sent on the channel of scope x has been received.
Taken(x) == ch[x].sends = 1 /\ ch[x].buf = <<>>

\* C39: a continuous-check failure taken off its channel is not lost: the
\* block whose channel gave it is Failed and stays so, and when the plan's
\* channel gave it the block in execution is Failed, so that neither that
\* block nor the plan ends Completed through a later nil read.
C39_PolledFailureKept ==
    /\ \A b \in PlanBlocks : Taken(b) => blockStatus[b] = Failed
    /\ Taken(0) => (planStatus # Completed /\ \E b \in PlanBlocks : blockStatus[b] = Failed)

\* The poll of ExecuteSequences has taken the failure of the first block's
\* supervisor, which has closed the channel; the machine has stopped.
C39_Witness ==
    /\ Taken(1)
    /\ ch[1].closed
    /\ blockStatus[1] = Failed
    /\ pc = "nil"
    /\ seq[<<1, 1>>].phase = "none"

\* C40: a supervisor that has to publish the error of a failed tick finds
\* the one slot of its channel free and the channel open: the send does not
\* block, whether or not the driver ever reads.
C40_SendNeverBlocks ==
    \A x \in Scopes :
        (sup[x].st = "tick" /\ ChecksDone(ContOf(x)) /\ ChecksErr(ContOf(x))) =>
            (Len(ch[x].buf) < ChanCap /\ ~ch[x].closed)

\* The plan's supervisor has sent the error of a failed tick and terminated,
\* and the machine has returned without ever reading the channel.
C40_Witness ==
    /\ sup[0].st = "done"
    /\ ch[0].buf = <<"err">>
    /\ ch[0].closed
    /\ pc = "nil"

====
